---- MODULE Spec2Model ----
(***************************************************************************)
(* The provisioning loop of pkg/controllers/provisioning (provisioner.go,  *)
(* carried in src/pkg/cloudprovider/aws/amifamily/al2.go from line 90 on): *)
(* the driver goroutine started by NewProvisioner, one pass of provision   *)
(* (Batcher.Wait, getPods, schedule, the parallel launch of the synthetic  *)
(* nodes, the parallel bind of each node's pods) and the deferred          *)
(* pass-completion broadcast.                                              *)
(***************************************************************************)
EXTENDS Integers, FiniteSets, Sequences, TLC

(***************************************************************************)
(* Bounds of the model.                                                    *)
(***************************************************************************)
NumPods == 4
MaxNodes == 2
MaxQty == 2
WIdle == 2
WMax == 3
MaxBatch == 3
MaxExisting == 2
MaxSkew == 2

Pods == 1..NumPods
NodeIds == 1..MaxNodes
None == "none"

(***************************************************************************)
(* The pods of the cluster store.  A pod is immutable within a pass; its   *)
(* attributes are fixed per pod id: every third pod fails validate() or    *)
(* the persistent-volume-claim validation, every fourth pod is not         *)
(* provisionable, every even pod tolerates the custom taint of a node, and *)
(* every pod requests one unit of each resource.                           *)
(***************************************************************************)
ResourceNames == {"cpu", "memory"}
CustomTaint == "custom"
NotReadyTaintKey == "karpenter.sh/not-ready"
TaintNodeNotReady == "node.kubernetes.io/not-ready"

PodValid(p) == p % 3 # 0
PodProvisionable(p) == p % 4 # 0
PodTolerations(p) == IF p % 2 = 0 THEN {CustomTaint} ELSE {}
PodRequests(p) == [r \in ResourceNames |-> 1]

VARIABLES
    ctxDone,      \* running.Err() # nil: Stop was called
    driver,       \* position of the driver goroutine
    logged,       \* "Provisioning failed" was logged for the pass before this one
    trigger,      \* the batcher's single trigger slot is armed
    provisionErr, \* what the provision call returned: "none" (no return yet), "nil", "err"
    batch,        \* pods returned by getPods in this pass
    nodePods,     \* nodes returned by schedule: node id -> set of pods
    nstate,       \* per node: position / outcome of its launch
    latest,       \* per node: what the limits check saw in the provisioner it read
    k8sTaints,    \* per node: taints of the node object after the merge
    registerRes,  \* per node: result of Nodes().Create
    createCalls,  \* nodes for which cloudProvider.Create was called this pass
    created,      \* nodes of this pass whose machine the cloud provider created
    registered,   \* nodes of this pass whose node object this pass created
    piece,        \* per pod: outcome of its bind work piece in this pass
    bindCalls,    \* pods for which Pods().Bind was called in this pass
    events,       \* pods for which PodShouldSchedule was recorded in this pass
    bound,        \* pods bound to a node (spec.nodeName set) in the cluster store
    broadcasts,   \* number of cond.Broadcast calls of the current provision call
    deferred,     \* pods a failed Create (.create) or a failed Bind (.bind) of the
                  \* last launch left unbound, kept until the next pass has listed
                  \* its pods
    passSteps,    \* steps of getPods and schedule that ran in this pass
    passFault,    \* the step of getPods or schedule that raised an error in this pass
    provisioners, \* the provisioners that schedule listed in this pass
    idleLeft,     \* Batcher.Wait: ticks left on the idle timer of the open window
    maxLeft,      \* Batcher.Wait: ticks left on the max timer of the open window
    sinceOpen,    \* ticks since the first Trigger opened the window
    sinceTrigger, \* ticks since Wait last took a Trigger from the slot
    solveIn,      \* Scheduler.Solve on its own: the input of the run
    solveOut,     \* Scheduler.Solve on its own: the result of the run
    caller,       \* position of a goroutine that calls TriggerAndWait
    immediate,    \* the batcher's immediate slot is armed
    ownPass,      \* the first pass whose Wait returned after the caller's
                  \* TriggerImmediate: "none" yet, "running", "done"
    wokenBy       \* the pass whose broadcast woke the caller: "own", "other"

vars == <<ctxDone, driver, logged, trigger, provisionErr, batch, nodePods, nstate,
          latest, k8sTaints, registerRes, createCalls, created, registered, piece,
          bindCalls, events, bound, broadcasts, deferred, passSteps, passFault,
          provisioners, idleLeft, maxLeft, sinceOpen, sinceTrigger, solveIn,
          solveOut, caller, immediate, ownPass, wokenBy>>

passVars == <<batch, nodePods, nstate, latest, k8sTaints, registerRes, createCalls,
              created, registered, piece, bindCalls, events>>
storeVars == <<bound>>
schedVars == <<passSteps, passFault, provisioners>>
clockVars == <<idleLeft, maxLeft, sinceOpen, sinceTrigger>>
solveVars == <<solveIn, solveOut>>
testVars == <<caller, immediate, ownPass, wokenBy>>
loopVars == <<ctxDone, driver, logged, trigger, provisionErr, passVars, storeVars,
              broadcasts, deferred, schedVars, clockVars, testVars>>

(***************************************************************************)
(* Helpers.                                                                *)
(***************************************************************************)
RECURSIVE SumRequests(_, _)
SumRequests(ps, r) ==
    IF ps = {} THEN 0
    ELSE LET p == CHOOSE x \in ps : TRUE
         IN  PodRequests(p)[r] + SumRequests(ps \ {p}, r)

\* resources.RequestsForPods over the pods placed on a synthetic node
NodeRequests(ps) == [r \in ResourceNames |-> SumRequests(ps, r)]

MinPod(ps) == CHOOSE p \in ps : \A q \in ps : p <= q

\* The node a pod was placed on by schedule (0: none).
NodeOf(p) ==
    IF \E n \in DOMAIN nodePods : p \in nodePods[n]
    THEN CHOOSE n \in DOMAIN nodePods : p \in nodePods[n]
    ELSE 0

(***************************************************************************)
(* v1alpha5.Limits.ExceededBy: the first resource of the given usage whose *)
(* limit is set and reached makes the check fail.  A nil limit list, or a  *)
(* resource without a limit, never fails it.                               *)
(***************************************************************************)
ExceededBy(limits, usage) ==
    \E r \in DOMAIN usage : r \in DOMAIN limits /\ usage[r] >= limits[r]

\* The provisioner snapshots kubeClient.Get can return: its limits (a limit of
\* MaxQty on any subset of the resources) and its Status.Resources.
LimitOptions == UNION {[D -> {MaxQty}] : D \in SUBSET ResourceNames}
Snapshots == [limits : LimitOptions, usage : [ResourceNames -> 0..MaxQty]]

(***************************************************************************)
(* v1alpha5.Taints.Tolerates(pod, extra tolerations): every taint of the   *)
(* node is tolerated by the pod's tolerations or by the extra ones.        *)
(***************************************************************************)
Tolerates(taints, p, extra) == taints \subseteq (PodTolerations(p) \cup extra)

notReadyTolerations == {NotReadyTaintKey, TaintNodeNotReady}

\* The taints a launched node can carry after the merge of the provisioner's
\* taints and startup taints onto the node the cloud provider returned.
NodeTaintOptions == {{NotReadyTaintKey}, {NotReadyTaintKey, CustomTaint}}

(***************************************************************************)
(* Scheduler.Solve: some of the batch's pods placed on at most MaxNodes    *)
(* nodes, every node carrying at least one pod, no pod on two nodes.       *)
(* Nodes are numbered in the order of their smallest pod.                  *)
(***************************************************************************)
SolveResults(pods) ==
    UNION {
      { np \in [1..k -> (SUBSET pods) \ {{}}] :
          /\ \A i, j \in 1..k : i # j => np[i] \cap np[j] = {}
          /\ \A i, j \in 1..k : i < j => MinPod(np[i]) < MinPod(np[j]) }
      : k \in 0..MaxNodes }

NoNodes == [n \in {} |-> {}]
NoPods == [create |-> {}, bind |-> {}]

\* launch has not read the provisioner of a node yet.
NotRead == [read |-> FALSE, exceeded |-> FALSE, wouldExceed |-> FALSE]

(***************************************************************************)
(* Scheduler.Solve (spec sections 4.2 to 4.4): first-fit-decreasing over   *)
(* the pods of the batch, with nodes that carry a zone requirement and a   *)
(* set of instance types instead of one fixed type.  One provisioner       *)
(* without taints admits every pod and every zone.  No pod of the model    *)
(* requests a GPU, so the GPU component of the sort key is equal for all   *)
(* pods.  The ranking of the instance types by price orders the options    *)
(* and leaves their set alone; the options are kept as a set.              *)
(***************************************************************************)
BatchPods == 1..MaxBatch

ZoneOrder == <<"zone-a", "zone-b", "zone-c">>
Zones == {ZoneOrder[i] : i \in DOMAIN ZoneOrder}
ZonePosition(z) == CHOOSE i \in DOMAIN ZoneOrder : ZoneOrder[i] = z

Vector(q) == [r \in ResourceNames |-> q]

\* The requests of the pods of a batch, fixed per pod.
SolveRequests(p) ==
    [r \in ResourceNames |->
        IF r = "cpu" THEN 1 + (p % 2) ELSE 1 + ((p \div 2) % 2)]

\* The instance types the cloud provider offers to the provisioner.
InstanceTypes ==
    {[name |-> "small", capacity |-> Vector(3), overhead |-> Vector(1),
      zones |-> Zones],
     [name |-> "medium", capacity |-> Vector(5), overhead |-> Vector(1),
      zones |-> Zones],
     [name |-> "large", capacity |-> Vector(8), overhead |-> Vector(1),
      zones |-> {"zone-a", "zone-b"}]}

TypeNames == {t.name : t \in InstanceTypes}
TypeOf(name) == CHOOSE t \in InstanceTypes : t.name = name

\* The daemon overhead of the provisioner: the requests of the daemon sets
\* that match it.
DaemonOverhead(daemons) == IF daemons THEN Vector(1) ELSE Vector(0)

\* The arrival orders of the batches {1..n}.
Arrivals ==
    UNION {{a \in [1..n -> 1..n] : \A i, j \in 1..n : i # j => a[i] # a[j]} :
              n \in BatchPods}

\* The inputs of a Solve run: the pods in arrival order, the per-zone counts
\* of the cluster's pods that match the spread constraint, the maxSkew of the
\* constraint the pods carry (0: no constraint), and whether daemon sets run
\* on the provisioner's nodes.
SolveInputs ==
    [arrival : Arrivals, existing : [Zones -> 0..MaxExisting],
     maxSkew : 0..MaxSkew, daemons : BOOLEAN]

NoInput ==
    [arrival |-> <<>>, existing |-> [z \in Zones |-> 0], maxSkew |-> 0,
     daemons |-> FALSE]

NotSolved ==
    [solved |-> FALSE, nodes |-> <<>>, counts |-> [z \in Zones |-> 0],
     unscheduled |-> {}]

\* Step 1: the sort key, decreasing CPU, then decreasing memory, then pod name.
Before(p, q) ==
    LET a == SolveRequests(p)
        b == SolveRequests(q)
    IN  \/ a["cpu"] > b["cpu"]
        \/ a["cpu"] = b["cpu"] /\ a["memory"] > b["memory"]
        \/ a["cpu"] = b["cpu"] /\ a["memory"] = b["memory"] /\ p < q

RECURSIVE Insert(_, _)
Insert(p, sorted) ==
    IF sorted = <<>> THEN <<p>>
    ELSE IF Before(p, Head(sorted)) THEN <<p>> \o sorted
    ELSE <<Head(sorted)>> \o Insert(p, Tail(sorted))

Unsorted(arrival) == arrival

RECURSIVE SortPods(_)
SortPods(arrival) ==
    IF arrival = <<>> THEN <<>>
    ELSE Insert(arrival[Len(arrival)],
                SortPods(SubSeq(arrival, 1, Len(arrival) - 1)))

\* Section 4.2: the smallest count over the domains of the constraint.
MinCount(counts) ==
    CHOOSE c \in {counts[z] : z \in Zones} : \A z \in Zones : c <= counts[z]

MaxCount(counts) ==
    CHOOSE c \in {counts[z] : z \in Zones} : \A z \in Zones : c >= counts[z]

AnyDomain(z, counts, k) == TRUE

\* Section 4.2: with maxSkew k a domain is admissible when its count is at most
\* the smallest count plus k - 1.
Admissible(z, counts, k) == counts[z] <= MinCount(counts) + k - 1

\* NextDomain: the admissible zone of the node with the smallest count, the
\* first one in zone order among equals; None when the node has none.
NextDomain(zones, counts, k) ==
    LET adm == {z \in zones : Admissible(z, counts, k)}
    IN  IF adm = {} THEN None
        ELSE CHOOSE z \in adm :
               \A y \in adm :
                 \/ counts[z] < counts[y]
                 \/ counts[z] = counts[y] /\ ZonePosition(z) <= ZonePosition(y)

FitsWithoutDaemons(t, requests, daemon) ==
    \A r \in ResourceNames : requests[r] <= t.capacity[r] - t.overhead[r]

\* Section 4.3: capacity minus overhead covers the requests and the daemons.
Fits(t, requests, daemon) ==
    \A r \in ResourceNames :
      requests[r] + daemon[r] <= t.capacity[r] - t.overhead[r]

\* A node that Solve opens: no pods, the zones and the instance types of the
\* provisioner.
FreshNode ==
    [pods |-> {}, zones |-> Zones, requests |-> Vector(0), options |-> TypeNames]

\* Step 3a (i) to (iii): narrow the node's zones to the pod's domain, refilter
\* the instance types, record the pod in the topology; not ok: rolled back.
TryPlace(node, p, counts, inp) ==
    LET k == inp.maxSkew
        dom == IF k = 0 THEN None ELSE NextDomain(node.zones, counts, k)
        zones == IF k = 0 THEN node.zones
                 ELSE IF dom = None THEN {} ELSE {dom}
        requests == [r \in ResourceNames |-> node.requests[r] + SolveRequests(p)[r]]
        options == {t \in node.options :
                      /\ TypeOf(t).zones \cap zones # {}
                      /\ Fits(TypeOf(t), requests, DaemonOverhead(inp.daemons))}
    IN  [ok |-> options # {},
         node |-> [pods |-> node.pods \cup {p}, zones |-> zones,
                   requests |-> requests, options |-> options],
         counts |-> IF k = 0 \/ options = {} THEN counts
                    ELSE [counts EXCEPT ![dom] = @ + 1]]

\* Step 3a: the first open node that takes the pod.
RECURSIVE PlaceOnOpen(_, _, _, _, _)
PlaceOnOpen(i, p, nodes, counts, inp) ==
    IF i > Len(nodes) THEN [ok |-> FALSE, nodes |-> nodes, counts |-> counts]
    ELSE LET try == TryPlace(nodes[i], p, counts, inp)
         IN  IF try.ok
             THEN [ok |-> TRUE, nodes |-> [nodes EXCEPT ![i] = try.node],
                   counts |-> try.counts]
             ELSE PlaceOnOpen(i + 1, p, nodes, counts, inp)

\* Steps 3 and 4: each pod goes to the first open node that takes it, else to
\* a new node, else it stays unscheduled.
RECURSIVE SolveFrom(_, _, _)
SolveFrom(pods, acc, inp) ==
    IF pods = <<>> THEN acc
    ELSE LET p == Head(pods)
             open == PlaceOnOpen(1, p, acc.nodes, acc.counts, inp)
             fresh == TryPlace(FreshNode, p, acc.counts, inp)
             next == IF open.ok
                     THEN [acc EXCEPT !.nodes = open.nodes, !.counts = open.counts]
                     ELSE IF fresh.ok
                     THEN [acc EXCEPT !.nodes = Append(acc.nodes, fresh.node),
                                      !.counts = fresh.counts]
                     ELSE [acc EXCEPT !.unscheduled = @ \cup {p}]
         IN  SolveFrom(Tail(pods), next, inp)

Solve(inp) ==
    SolveFrom(SortPods(inp.arrival),
              [solved |-> TRUE, nodes |-> <<>>, counts |-> inp.existing,
               unscheduled |-> {}],
              inp)

(***************************************************************************)
(* Init: the state NewProvisioner leaves behind: the driver goroutine is   *)
(* about to test its loop condition, nothing is triggered, every pod of    *)
(* the store is pending.                                                   *)
(***************************************************************************)
LoopInit ==
    /\ ctxDone = FALSE
    /\ driver = "loop"
    /\ logged = FALSE
    /\ trigger = FALSE
    /\ provisionErr = None
    /\ batch = {}
    /\ nodePods = NoNodes
    /\ nstate = [n \in NodeIds |-> None]
    /\ latest = [n \in NodeIds |-> NotRead]
    /\ k8sTaints = [n \in NodeIds |-> {}]
    /\ registerRes = [n \in NodeIds |-> None]
    /\ createCalls = {}
    /\ piece = [p \in Pods |-> None]
    /\ bindCalls = {}
    /\ events = {}
    /\ bound = {}
    /\ created = {}
    /\ registered = {}
    /\ broadcasts = 0
    /\ deferred = NoPods
    /\ passSteps = {}
    /\ passFault = None
    /\ provisioners = {}
    /\ idleLeft = 0
    /\ maxLeft = 0
    /\ sinceOpen = 0
    /\ sinceTrigger = 0
    /\ caller = "idle"
    /\ immediate = FALSE
    /\ ownPass = None
    /\ wokenBy = None

Init ==
    /\ LoopInit
    /\ solveIn = NoInput
    /\ solveOut = NotSolved

(***************************************************************************)
(* Environment.                                                            *)
(***************************************************************************)
\* Provisioner.Stop: cancels the running context.
Stop ==
    /\ ~ctxDone
    /\ ctxDone' = TRUE
    /\ UNCHANGED <<driver, logged, trigger, provisionErr, passVars, storeVars,
                   broadcasts, deferred>>
    /\ UNCHANGED schedVars
    /\ UNCHANGED clockVars
    /\ UNCHANGED solveVars
    /\ UNCHANGED testVars

TriggerBlocksInPass == driver \in {"waitFirst", "waitWindow"}

\* The send on the single-slot channel has a default branch.
TriggerReady == TRUE

\* Provisioner.Trigger -> Batcher.Trigger: arms the single slot, never blocks.
Trigger ==
    /\ TriggerReady
    /\ trigger' = TRUE
    /\ UNCHANGED <<ctxDone, driver, logged, provisionErr, passVars, storeVars,
                   broadcasts, deferred>>
    /\ UNCHANGED schedVars
    /\ UNCHANGED clockVars
    /\ UNCHANGED solveVars
    /\ UNCHANGED testVars

(***************************************************************************)
(* The driver goroutine of NewProvisioner.                                 *)
(***************************************************************************)
LoopStopsOnError == ~ctxDone /\ provisionErr # "err"

LoopIgnoresContext == TRUE

\* for running.Err() == nil
LoopContinues == ~ctxDone

\* The loop of the goroutine: the error of the pass that returned is logged,
\* then the loop condition decides between a further pass and the exit.
DriverLoop ==
    /\ driver = "loop"
    /\ driver' = IF LoopContinues THEN "waitFirst" ELSE "stopped"
    /\ logged' = (provisionErr = "err")
    /\ provisionErr' = None
    /\ broadcasts' = 0
    /\ UNCHANGED <<ctxDone, trigger, passVars, storeVars, deferred>>
    /\ UNCHANGED schedVars
    /\ UNCHANGED clockVars
    /\ UNCHANGED solveVars
    /\ UNCHANGED testVars

\* The locals of provision are gone when it returns.
ResetPass ==
    /\ batch' = {}
    /\ nodePods' = NoNodes
    /\ nstate' = [n \in NodeIds |-> None]
    /\ latest' = [n \in NodeIds |-> NotRead]
    /\ k8sTaints' = [n \in NodeIds |-> {}]
    /\ registerRes' = [n \in NodeIds |-> None]
    /\ createCalls' = {}
    /\ created' = {}
    /\ registered' = {}
    /\ piece' = [p \in Pods |-> None]
    /\ bindCalls' = {}
    /\ events' = {}
    /\ passSteps' = {}
    /\ passFault' = None
    /\ provisioners' = {}

(***************************************************************************)
(* Batcher.Wait.  Time is counted in ticks while a window is open; the     *)
(* time of a pass takes no part in the timers.  A timer that has run out   *)
(* is served before the clock moves on.                                    *)
(***************************************************************************)
ClosedWindow ==
    /\ idleLeft' = 0
    /\ maxLeft' = 0
    /\ sinceOpen' = 0
    /\ sinceTrigger' = 0

\* Batcher.Wait, first half: block until the first Trigger opens the window
\* and starts the idle and the max timer.
WaitFirst ==
    /\ driver = "waitFirst"
    /\ trigger
    /\ trigger' = FALSE
    /\ driver' = "waitWindow"
    /\ idleLeft' = WIdle
    /\ maxLeft' = WMax
    /\ sinceOpen' = 0
    /\ sinceTrigger' = 0
    /\ UNCHANGED <<ctxDone, logged, provisionErr, passVars, storeVars, broadcasts,
                   deferred>>
    /\ UNCHANGED schedVars
    /\ UNCHANGED solveVars
    /\ UNCHANGED testVars

IdleNotReset(left) == left

\* The idle timer after a further Trigger: reset to the idle window.
IdleAfterTrigger(left) == WIdle

\* Batcher.Wait, second half: a further Trigger restarts the idle timer and
\* leaves the max timer alone.
WaitExtend ==
    /\ driver = "waitWindow"
    /\ trigger
    /\ trigger' = FALSE
    /\ idleLeft' = IdleAfterTrigger(idleLeft)
    /\ sinceTrigger' = 0
    /\ UNCHANGED <<maxLeft, sinceOpen>>
    /\ UNCHANGED <<ctxDone, driver, logged, provisionErr, passVars, storeVars,
                   broadcasts, deferred>>
    /\ UNCHANGED schedVars
    /\ UNCHANGED solveVars
    /\ UNCHANGED testVars

\* A tick of the clock while the window is open and no timer has run out.
Tick ==
    /\ driver = "waitWindow"
    /\ idleLeft > 0
    /\ maxLeft > 0
    /\ idleLeft' = idleLeft - 1
    /\ maxLeft' = maxLeft - 1
    /\ sinceOpen' = sinceOpen + 1
    /\ sinceTrigger' = IF sinceTrigger < WIdle THEN sinceTrigger + 1 ELSE WIdle
    /\ UNCHANGED <<ctxDone, driver, logged, trigger, provisionErr, passVars,
                   storeVars, broadcasts, deferred>>
    /\ UNCHANGED schedVars
    /\ UNCHANGED solveVars
    /\ UNCHANGED testVars

\* Wait returns and a pass starts: it is the caller's own pass when it is the
\* first to start after the caller's TriggerImmediate.
PassStarts ==
    /\ ownPass' = IF caller \in {"triggered", "waiting"} /\ ownPass = None
                  THEN "running" ELSE ownPass
    /\ UNCHANGED <<caller, wokenBy>>

\* Batcher.Wait returns: the idle or the max timer fired.
WaitReturn ==
    /\ driver = "waitWindow"
    /\ idleLeft = 0 \/ maxLeft = 0
    /\ driver' = "getPods"
    /\ ClosedWindow
    /\ UNCHANGED <<ctxDone, logged, trigger, provisionErr, passVars, storeVars,
                   broadcasts, deferred>>
    /\ UNCHANGED schedVars
    /\ UNCHANGED solveVars
    /\ PassStarts
    /\ UNCHANGED immediate

\* Batcher.Wait aborts when its governing context ends.
WaitAbort ==
    /\ driver \in {"waitFirst", "waitWindow"}
    /\ ctxDone
    /\ driver' = "getPods"
    /\ ClosedWindow
    /\ UNCHANGED <<ctxDone, logged, trigger, provisionErr, passVars, storeVars,
                   broadcasts, deferred>>
    /\ UNCHANGED schedVars
    /\ UNCHANGED solveVars
    /\ PassStarts
    /\ UNCHANGED immediate

ProvisionableUnlessOneInvalid(listed) ==
    IF \A p \in listed : PodValid(p)
    THEN {p \in listed : PodProvisionable(p)}
    ELSE {}

ProvisionableOnce(listed) ==
    {p \in listed : /\ PodValid(p) /\ PodProvisionable(p)
                    /\ p \notin deferred.create \cup deferred.bind}

\* getPods' filter over the listed pods (spec.nodeName == "").
Provisionable(listed) == {p \in listed : PodValid(p) /\ PodProvisionable(p)}

\* provision: getPods and the two early returns that follow it.
GetPods ==
    /\ driver = "getPods"
    /\ logged' = FALSE
    /\ passSteps' = {"listPods"}
    /\ \E ok \in BOOLEAN :
         IF ~ok
         THEN /\ provisionErr' = "err"
              /\ passFault' = "listPods"
              /\ driver' = "broadcast"
              /\ UNCHANGED batch
         ELSE LET pods == Provisionable(Pods \ bound)
              IN  /\ batch' = pods
                  /\ passFault' = None
                  /\ IF pods = {}
                     THEN provisionErr' = "nil" /\ driver' = "broadcast"
                     ELSE provisionErr' = None /\ driver' = "schedule"
    /\ UNCHANGED <<ctxDone, trigger, nodePods, nstate, latest, k8sTaints,
                   registerRes, createCalls, created, registered, piece, bindCalls,
                   events, storeVars, broadcasts, deferred, provisioners>>
    /\ UNCHANGED clockVars
    /\ UNCHANGED solveVars
    /\ UNCHANGED testVars

(***************************************************************************)
(* schedule.  Its steps in source order: list the provisioners; for each   *)
(* provisioner GetRequirements and GetInstanceTypes; the check for an      *)
(* empty provisioner list; volume-topology injection for the pods;         *)
(* NewTopology; getDaemonOverhead, which lists the daemon sets; Solve.     *)
(* Every step returns the error it gets.                                   *)
(***************************************************************************)
ProvisionerNames == {"default"}

ScheduleOrderCheckLast ==
    <<"listProvisioners", "getRequirements", "getInstanceTypes", "inject",
      "newTopology", "listDaemonSets", "solve", "noProvisioners">>

ScheduleOrder ==
    <<"listProvisioners", "getRequirements", "getInstanceTypes", "noProvisioners",
      "inject", "newTopology", "listDaemonSets", "solve">>

\* The calls of schedule that the cluster store or the cloud provider can fail.
ScheduleCalls ==
    {"listProvisioners", "getRequirements", "getInstanceTypes", "inject",
     "newTopology", "listDaemonSets", "solve"}

\* The body of the loop over the provisioners runs once per listed provisioner.
StepApplies(step, provs) ==
    step \in {"getRequirements", "getInstanceTypes"} => provs # {}

\* A call fails when the environment fails it; the check fails on an empty list.
StepFails(step, provs, failAt) ==
    IF step = "noProvisioners" THEN provs = {} ELSE step = failAt

ReturnsOnErrorExceptDaemonSets(step) == step # "listDaemonSets"

\* if err != nil { return nil, ... } after every step
ReturnsOnError(step) == TRUE

\* schedule from its i-th step on: the steps that ran, the first error raised
\* and the error returned.
RECURSIVE ScheduleFrom(_, _, _, _)
ScheduleFrom(i, provs, failAt, acc) ==
    IF i > Len(ScheduleOrder)
    THEN [steps |-> acc.steps, fault |-> acc.fault, returned |-> None]
    ELSE LET step == ScheduleOrder[i]
             fails == StepFails(step, provs, failAt)
             ran == [steps |-> acc.steps \cup {step},
                     fault |-> IF acc.fault = None /\ fails THEN step ELSE acc.fault]
         IN  IF ~StepApplies(step, provs)
             THEN ScheduleFrom(i + 1, provs, failAt, acc)
             ELSE IF fails /\ ReturnsOnError(step)
             THEN [steps |-> ran.steps, fault |-> ran.fault, returned |-> step]
             ELSE ScheduleFrom(i + 1, provs, failAt, ran)

ScheduleRun(provs, failAt) ==
    ScheduleFrom(1, provs, failAt, [steps |-> {}, fault |-> None])

\* provision: schedule either fails or returns the synthetic nodes, which are
\* handed to ParallelizeUntil.
Schedule ==
    /\ driver = "schedule"
    /\ deferred' = NoPods
    /\ \E provs \in SUBSET ProvisionerNames, failAt \in ScheduleCalls \cup {None} :
         LET run == ScheduleRun(provs, failAt)
         IN  /\ passSteps' = passSteps \cup run.steps
             /\ passFault' = run.fault
             /\ provisioners' = IF run.fault = "listProvisioners" THEN {} ELSE provs
             /\ IF run.returned # None
                THEN /\ provisionErr' = "err"
                     /\ driver' = "broadcast"
                     /\ UNCHANGED <<nodePods, nstate>>
                ELSE \E np \in SolveResults(batch) :
                       /\ nodePods' = np
                       /\ nstate' = [n \in NodeIds |->
                                       IF n \in DOMAIN np THEN "queued" ELSE None]
                       /\ driver' = "launch"
                       /\ UNCHANGED provisionErr
    /\ UNCHANGED <<ctxDone, logged, trigger, batch, latest, k8sTaints, registerRes,
                   createCalls, created, registered, piece, bindCalls, events,
                   storeVars, broadcasts>>
    /\ UNCHANGED clockVars
    /\ UNCHANGED solveVars
    /\ UNCHANGED testVars

(***************************************************************************)
(* workqueue.ParallelizeUntil(ctx, len(nodes), len(nodes), ...): one work  *)
(* piece per node, all pieces in flight together.  A worker tests the      *)
(* context's Done channel before it starts a piece and returns without     *)
(* starting it when the context has ended.                                 *)
(***************************************************************************)
PieceStartsUnlessSiblingFailed(n) ==
    /\ ~ctxDone
    /\ \A m \in DOMAIN nodePods :
         nstate[m] \notin {"getErr", "limit", "createErr", "mergeErr", "registerErr"}

PieceAlwaysStarts(n) == TRUE

PieceStarts(n) == ~ctxDone

PieceQueuedOrCreateFailed(n) == nstate[n] \in {"queued", "createErr"}

\* ParallelizeUntil hands every index to a worker once.
PieceQueued(n) == nstate[n] = "queued"

LaunchStart(n) ==
    /\ driver = "launch"
    /\ PieceQueued(n)
    /\ nstate' = [nstate EXCEPT ![n] = IF PieceStarts(n) THEN "get" ELSE "skipped"]
    /\ UNCHANGED <<ctxDone, driver, logged, trigger, provisionErr, batch, nodePods,
                   latest, k8sTaints, registerRes, createCalls, created, registered,
                   piece, bindCalls, events, storeVars, broadcasts, deferred>>
    /\ UNCHANGED schedVars
    /\ UNCHANGED clockVars
    /\ UNCHANGED solveVars
    /\ UNCHANGED testVars

LimitsNotChecked(n, snap) == FALSE

\* launch: latest.Spec.Limits.ExceededBy(latest.Status.Resources)
LimitsRejected(n, snap) == ExceededBy(snap.limits, snap.usage)

\* What the limits of the snapshot say about it: whether its usage alone
\* reaches a limit, and whether its usage plus the requests of the node's pods
\* would go over a limit.
Observed(n, snap) ==
    [read |-> TRUE,
     exceeded |-> ExceededBy(snap.limits, snap.usage),
     wouldExceed |-> \E r \in DOMAIN snap.limits :
                       snap.usage[r] + NodeRequests(nodePods[n])[r] > snap.limits[r]]

\* launch: re-read the provisioner and check its limits.
LaunchGet(n) ==
    /\ nstate[n] = "get"
    /\ \/ /\ nstate' = [nstate EXCEPT ![n] = "getErr"]
          /\ UNCHANGED latest
       \/ \E got \in {<<Observed(n, snap), LimitsRejected(n, snap)>> :
                             snap \in Snapshots} :
            /\ latest' = [latest EXCEPT ![n] = got[1]]
            /\ nstate' = [nstate EXCEPT ![n] = IF got[2] THEN "limit" ELSE "create"]
    /\ UNCHANGED <<ctxDone, driver, logged, trigger, provisionErr, batch, nodePods,
                   k8sTaints, registerRes, createCalls, created, registered, piece,
                   bindCalls, events, storeVars, broadcasts, deferred>>
    /\ UNCHANGED schedVars
    /\ UNCHANGED clockVars
    /\ UNCHANGED solveVars
    /\ UNCHANGED testVars

\* launch: cloudProvider.Create, then mergo.Merge of the provisioner's node
\* template onto the returned node.
LaunchCreate(n) ==
    /\ nstate[n] = "create"
    /\ createCalls' = createCalls \cup {n}
    /\ \/ /\ nstate' = [nstate EXCEPT ![n] = "createErr"]
          /\ UNCHANGED <<created, k8sTaints>>
       \/ /\ created' = created \cup {n}
          /\ nstate' = [nstate EXCEPT ![n] = "mergeErr"]
          /\ UNCHANGED k8sTaints
       \/ /\ created' = created \cup {n}
          /\ \E taints \in NodeTaintOptions :
               k8sTaints' = [k8sTaints EXCEPT ![n] = taints]
          /\ nstate' = [nstate EXCEPT ![n] = "register"]
    /\ UNCHANGED <<ctxDone, driver, logged, trigger, provisionErr, batch, nodePods,
                   latest, registerRes, registered, piece, bindCalls, events, bound,
                   broadcasts, deferred>>
    /\ UNCHANGED schedVars
    /\ UNCHANGED clockVars
    /\ UNCHANGED solveVars
    /\ UNCHANGED testVars

RegisterStrict(res) == res = "created"

RegisterAlwaysProceeds(res) == TRUE

\* launch: errors.IsAlreadyExists(err) is the one error of Nodes().Create that
\* does not end the launch.
RegisterProceeds(res) == res \in {"created", "exists"}

\* launch: register the node object and hand the node's pods to bind.
LaunchRegister(n) ==
    /\ nstate[n] = "register"
    /\ \E res \in {"created", "exists", "error"} :
         /\ registerRes' = [registerRes EXCEPT ![n] = res]
         /\ registered' = IF res = "created" THEN registered \cup {n} ELSE registered
         /\ IF RegisterProceeds(res)
            THEN /\ nstate' = [nstate EXCEPT ![n] = "bind"]
                 /\ piece' = [p \in Pods |->
                                IF p \in nodePods[n] THEN "queued" ELSE piece[p]]
            ELSE /\ nstate' = [nstate EXCEPT ![n] = "registerErr"]
                 /\ UNCHANGED piece
    /\ UNCHANGED <<ctxDone, driver, logged, trigger, provisionErr, batch, nodePods,
                   latest, k8sTaints, createCalls, created, bindCalls, events, bound,
                   broadcasts, deferred>>
    /\ UNCHANGED schedVars
    /\ UNCHANGED clockVars
    /\ UNCHANGED solveVars
    /\ UNCHANGED testVars

BindNeverSkips(n, p) == FALSE

\* bind: nodeTaints.Tolerates(pod, notReadyTolerations...) != nil
BindSkips(n, p) == ~Tolerates(k8sTaints[n], p, notReadyTolerations)

BindPieceStartsUnlessSiblingFailed(p) ==
    /\ ~ctxDone
    /\ \A q \in nodePods[NodeOf(p)] : piece[q] # "bindErr"

\* bind: ParallelizeUntil starts a piece unless the context has ended.
BindPieceStarts(p) == ~ctxDone

\* bind: the work piece of one pod under ParallelizeUntil(ctx, len(pods), ...):
\* not started once the context has ended; otherwise the pod is either skipped
\* with a PodShouldSchedule event or bound, and a failed Bind is only logged.
BindPod(p) ==
    /\ piece[p] = "queued"
    /\ nstate[NodeOf(p)] = "bind"
    /\ IF ~BindPieceStarts(p)
       THEN /\ piece' = [piece EXCEPT ![p] = "skipped"]
            /\ UNCHANGED <<bound, bindCalls, events>>
       ELSE IF BindSkips(NodeOf(p), p)
       THEN /\ piece' = [piece EXCEPT ![p] = "event"]
            /\ events' = events \cup {p}
            /\ UNCHANGED <<bound, bindCalls>>
       ELSE /\ bindCalls' = bindCalls \cup {p}
            /\ UNCHANGED events
            /\ \/ /\ piece' = [piece EXCEPT ![p] = "bindOk"]
                  /\ bound' = bound \cup {p}
               \/ /\ piece' = [piece EXCEPT ![p] = "bindErr"]
                  /\ UNCHANGED bound
    /\ UNCHANGED <<ctxDone, driver, logged, trigger, provisionErr, batch, nodePods,
                   nstate, latest, k8sTaints, registerRes, createCalls, created,
                   registered, broadcasts, deferred>>
    /\ UNCHANGED schedVars
    /\ UNCHANGED clockVars
    /\ UNCHANGED solveVars
    /\ UNCHANGED testVars

PiecesReturnedOrQueued(n) == TRUE

\* bind: ParallelizeUntil returns when every piece was processed or dropped.
PiecesReturned(n) == \A p \in nodePods[n] : piece[p] # "queued"

\* bind returns nil once every piece has been processed; launch returns nil.
BindReturn(n) ==
    /\ nstate[n] = "bind"
    /\ PiecesReturned(n)
    /\ nstate' = [nstate EXCEPT ![n] = "done"]
    /\ UNCHANGED <<ctxDone, driver, logged, trigger, provisionErr, batch, nodePods,
                   latest, k8sTaints, registerRes, createCalls, created, registered,
                   piece, bindCalls, events, storeVars, broadcasts, deferred>>
    /\ UNCHANGED schedVars
    /\ UNCHANGED clockVars
    /\ UNCHANGED solveVars
    /\ UNCHANGED testVars

LaunchFinished == {"skipped", "getErr", "limit", "createErr", "mergeErr",
                   "registerErr", "done"}

\* The pods a failed Create or a failed Bind of this pass left unbound.
Unscheduled ==
    [create |-> {p \in Pods : NodeOf(p) # 0 /\ nstate[NodeOf(p)] = "createErr"},
     bind |-> {p \in Pods : piece[p] = "bindErr"}]

AnyReturned == \E n \in DOMAIN nodePods : nstate[n] \in LaunchFinished

\* ParallelizeUntil's wg.Wait(): every worker has returned.
AllReturned == \A n \in DOMAIN nodePods : nstate[n] \in LaunchFinished

JoinResultPropagates ==
    IF \E n \in DOMAIN nodePods : nstate[n] \notin {"done", "skipped"}
    THEN "err" ELSE "nil"

\* provision's return value after the launch: the errors of launch were
\* logged by the work pieces, the pass itself returns nil.
JoinResult == "nil"

\* provision: ParallelizeUntil returns when every worker has returned; the
\* launch errors were logged and provision returns nil.
LaunchJoin ==
    /\ driver = "launch"
    /\ AllReturned
    /\ provisionErr' = JoinResult
    /\ deferred' = Unscheduled
    /\ driver' = "broadcast"
    /\ UNCHANGED <<ctxDone, logged, trigger, passVars, storeVars, broadcasts>>
    /\ UNCHANGED schedVars
    /\ UNCHANGED clockVars
    /\ UNCHANGED solveVars
    /\ UNCHANGED testVars

\* provision: defer p.cond.Broadcast() runs on every return after Wait.
Broadcast ==
    /\ driver = "broadcast"
    /\ broadcasts' = broadcasts + 1
    /\ driver' = "loop"
    /\ ResetPass
    /\ caller' = IF caller = "waiting" THEN "returned" ELSE caller
    /\ wokenBy' = IF caller # "waiting" THEN wokenBy
                  ELSE IF ownPass = "running" THEN "own" ELSE "other"
    /\ ownPass' = IF ownPass = "running" THEN "done" ELSE ownPass
    /\ UNCHANGED immediate
    /\ UNCHANGED <<ctxDone, logged, trigger, provisionErr, storeVars, deferred>>
    /\ UNCHANGED clockVars
    /\ UNCHANGED solveVars

Next ==
    \/ Stop
    \/ Trigger
    \/ DriverLoop
    \/ WaitFirst
    \/ WaitExtend
    \/ Tick
    \/ WaitReturn
    \/ WaitAbort
    \/ GetPods
    \/ Schedule
    \/ \E n \in NodeIds : LaunchStart(n)
    \/ \E n \in NodeIds : LaunchGet(n)
    \/ \E n \in NodeIds : LaunchCreate(n)
    \/ \E n \in NodeIds : LaunchRegister(n)
    \/ \E p \in Pods : BindPod(p)
    \/ \E n \in NodeIds : BindReturn(n)
    \/ LaunchJoin
    \/ Broadcast

Spec == Init /\ [][Next]_vars

(***************************************************************************)
(* The loop with a goroutine that calls TriggerAndWait, as the unit tests  *)
(* do.  cond.Wait puts the caller on the condition variable's wait list    *)
(* and releases p.mu; provision takes no lock before its Broadcast.        *)
(***************************************************************************)
\* TriggerAndWait: p.mu.Lock(); p.batcher.TriggerImmediate()
TriggerAndWaitCall ==
    /\ caller \in {"idle", "returned"}
    /\ caller' = "triggered"
    /\ immediate' = TRUE
    /\ ownPass' = None
    /\ wokenBy' = None
    /\ UNCHANGED <<ctxDone, driver, logged, trigger, provisionErr, passVars,
                   storeVars, broadcasts, deferred, schedVars, clockVars, solveVars>>

\* TriggerAndWait: p.cond.Wait() puts the caller on the wait list; the caller
\* returns (p.mu.Unlock()) when a Broadcast wakes it.
CondWait ==
    /\ caller = "triggered"
    /\ caller' = "waiting"
    /\ UNCHANGED <<immediate, ownPass, wokenBy>>
    /\ UNCHANGED <<ctxDone, driver, logged, trigger, provisionErr, passVars,
                   storeVars, broadcasts, deferred, schedVars, clockVars, solveVars>>

\* Batcher.Wait with the immediate slot armed: it returns at once.
WaitImmediate ==
    /\ driver \in {"waitFirst", "waitWindow"}
    /\ immediate
    /\ immediate' = FALSE
    /\ driver' = "getPods"
    /\ ClosedWindow
    /\ PassStarts
    /\ UNCHANGED <<ctxDone, logged, trigger, provisionErr, passVars, storeVars,
                   broadcasts, deferred, schedVars, solveVars>>

TestNext ==
    \/ Next
    \/ TriggerAndWaitCall
    \/ CondWait
    \/ WaitImmediate

TestSpec == Init /\ [][TestNext]_vars

(***************************************************************************)
(* Scheduler.Solve on its own: every input of the bounded sets, one run.   *)
(***************************************************************************)
SolveInit ==
    /\ LoopInit
    /\ solveIn \in SolveInputs
    /\ solveOut = NotSolved

SolveStep ==
    /\ ~solveOut.solved
    /\ solveOut' = Solve(solveIn)
    /\ UNCHANGED <<solveIn, loopVars>>

SolveSpec == SolveInit /\ [][SolveStep]_vars

(***************************************************************************)
(* Claims about the limits check of launch.                                *)
(***************************************************************************)

\* C1 as stated: a node is never handed to cloudProvider.Create when the usage
\* the launch read plus the requests of the node's pods goes over a limit of
\* the provisioner.
C1_NoCreateWhenNodeWouldExceed ==
    \A n \in createCalls : latest[n].read /\ ~latest[n].wouldExceed

\* C1: launch re-reads the provisioner before cloudProvider.Create, and a node
\* whose provisioner's current usage alone reaches one of its limits
\* (Limits.ExceededBy of Status.Resources) is aborted without a Create call;
\* the requests of the node being launched take no part in the check.
C1_NoCreateWhenUsageExceeds ==
    /\ \A n \in createCalls : latest[n].read /\ ~latest[n].exceeded
    /\ \A n \in DOMAIN nodePods :
         latest[n].exceeded => nstate[n] = "limit" /\ n \notin createCalls

C1_Witness ==
    \E n \in DOMAIN nodePods :
        /\ latest[n].read /\ latest[n].exceeded
        /\ nstate[n] = "limit"
        /\ n \notin createCalls
        /\ driver = "broadcast"

\* C2: a node the limits check rejected is aborted: no cloudProvider.Create,
\* no machine, no node-object registration, no Bind and no event for it, its
\* pods stay unbound, and the pass that launched it returns no error.
C2_LimitAbortIsNotAnError ==
    /\ \A n \in DOMAIN nodePods :
         nstate[n] = "limit" =>
            /\ n \notin createCalls /\ n \notin created /\ n \notin registered
            /\ registerRes[n] = None
            /\ \A p \in nodePods[n] :
                 /\ piece[p] = None /\ p \notin bindCalls /\ p \notin events
                 /\ p \notin bound
    /\ (driver = "broadcast" /\ \E n \in DOMAIN nodePods : nstate[n] = "limit")
         => provisionErr = "nil"

C2_Witness ==
    /\ driver = "broadcast"
    /\ provisionErr = "nil"
    /\ \E n, m \in DOMAIN nodePods :
         /\ nstate[n] = "limit"
         /\ nstate[m] = "done"
         /\ \E p \in nodePods[m] : piece[p] = "bindOk"

(***************************************************************************)
(* Claims about the registration of the node object.                       *)
(***************************************************************************)

\* C3: when Nodes().Create answers AlreadyExists the launch goes on to bind
\* the node's pods (every pod of the node gets its bind work piece, and with
\* a live context none is left out); any other error of Nodes().Create ends
\* the launch before a Bind or an event is issued for a pod of the node.
C3_IdempotentLaunch ==
    \A n \in DOMAIN nodePods :
        /\ registerRes[n] = "exists" =>
             /\ n \in created
             /\ nstate[n] \in {"bind", "done"}
             /\ \A p \in nodePods[n] : piece[p] # None
             /\ nstate[n] = "done" =>
                  \A p \in nodePods[n] :
                      \/ piece[p] \in {"event", "bindOk", "bindErr"}
                      \/ piece[p] = "skipped" /\ ctxDone
        /\ registerRes[n] = "error" =>
             /\ nstate[n] = "registerErr"
             /\ \A p \in nodePods[n] :
                  /\ piece[p] = None /\ p \notin bindCalls /\ p \notin events
                  /\ p \notin bound

C3_Witness ==
    \E n \in DOMAIN nodePods :
        /\ registerRes[n] = "exists"
        /\ nstate[n] = "done"
        /\ \E p \in nodePods[n] : piece[p] = "bindOk" /\ p \in bound

(***************************************************************************)
(* Claims about the parallel launch of the nodes of a pass.                *)
(***************************************************************************)
LaunchFailed == {"getErr", "limit", "createErr", "mergeErr", "registerErr"}

\* C4: when the launch phase of a pass is over and the context was not
\* cancelled, every node of the batch was launched and has its own outcome
\* (bound or one of the failures), whatever happened to its siblings; while
\* the phase runs, a failed sibling never takes a node out of the queue.
C4_SiblingsUnaffected ==
    /\ (driver = "broadcast" /\ ~ctxDone) =>
          \A n \in DOMAIN nodePods : nstate[n] \in LaunchFailed \cup {"done"}
    /\ ~ctxDone => \A n \in DOMAIN nodePods : nstate[n] # "skipped"

C4_Witness ==
    /\ driver = "broadcast"
    /\ ~ctxDone
    /\ \E n, m \in DOMAIN nodePods :
         /\ nstate[n] \in LaunchFailed
         /\ nstate[m] = "done"
         /\ \E p \in nodePods[m] : p \in bound

\* C5 as stated: when cloudProvider.Create fails for a node, or a Bind of one
\* of its pods fails, none of the node's pods is bound in this pass.
C5_FailedNodeBindsNothing ==
    \A n \in DOMAIN nodePods :
        (nstate[n] = "createErr" \/ \E p \in nodePods[n] : piece[p] = "bindErr")
            => \A p \in nodePods[n] : p \notin bound

\* C5: a failed cloudProvider.Create leaves every pod of its node unbound, a
\* failed Bind leaves the pod it was issued for unbound (the other pods of
\* the node may be bound), the pass still returns nil, and the pods left
\* unbound are in the pod list of the next pass that lists its pods.
C5_FailedPodsRetried ==
    /\ \A n \in DOMAIN nodePods :
         nstate[n] = "createErr" =>
            \A p \in nodePods[n] : piece[p] = None /\ p \notin bound
    /\ \A p \in Pods : piece[p] = "bindErr" => p \notin bound
    /\ driver = "schedule" => (deferred.create \cup deferred.bind) \subseteq batch
    /\ (driver = "broadcast" /\ provisionErr = "nil" /\ batch = {})
         => deferred = NoPods
    /\ (driver = "broadcast" /\ DOMAIN nodePods # {}) => provisionErr = "nil"

C5_Witness ==
    /\ driver = "schedule"
    /\ deferred.create # {}
    /\ deferred.bind # {}
    /\ (deferred.create \cup deferred.bind) \subseteq batch

(***************************************************************************)
(* Claims about the driver goroutine.                                      *)
(***************************************************************************)

\* C6: the driver leaves its loop only when the context is cancelled; after a
\* pass that returned an error it logs the error and goes back to
\* Batcher.Wait, from where the next Trigger starts a further pass.
C6_LoopSurvivesErrors ==
    /\ [](driver = "stopped" => ctxDone)
    /\ [][(driver = "loop" /\ provisionErr = "err" /\ ~ctxDone /\ driver' # driver)
            => (driver' = "waitFirst" /\ logged')]_vars
    /\ [][(driver = "waitFirst" /\ ~ctxDone /\ driver' # driver)
            => (trigger /\ driver' = "waitWindow")]_vars

C6_Witness ==
    /\ driver = "getPods"
    /\ logged
    /\ ~ctxDone

\* The scheduler runs every goroutine that can take a step: the driver, the
\* launch workers and the bind workers.
Fairness ==
    /\ WF_vars(DriverLoop)
    /\ WF_vars(Tick)
    /\ WF_vars(WaitReturn)
    /\ WF_vars(WaitAbort)
    /\ WF_vars(GetPods)
    /\ WF_vars(Schedule)
    /\ WF_vars(LaunchJoin)
    /\ WF_vars(Broadcast)
    /\ \A n \in NodeIds :
         /\ WF_vars(LaunchStart(n))
         /\ WF_vars(LaunchGet(n))
         /\ WF_vars(LaunchCreate(n))
         /\ WF_vars(LaunchRegister(n))
         /\ WF_vars(BindReturn(n))
    /\ \A p \in Pods : WF_vars(BindPod(p))

FairSpec == Spec /\ Fairness

\* C7: once Stop has cancelled the context, wherever the driver is, the
\* driver goroutine terminates; after the cancellation it never enters
\* Batcher.Wait again, and once it has exited nothing of a pass happens.
C7_StopTerminatesDriver ==
    /\ ctxDone ~> (driver = "stopped")
    /\ [][(ctxDone /\ driver # "waitFirst") => driver' # "waitFirst"]_vars
    /\ [][driver = "stopped" =>
            (driver' = "stopped" /\ UNCHANGED <<passVars, storeVars, broadcasts>>)]_vars

C7_Witness ==
    /\ ctxDone
    /\ driver = "stopped"
    /\ bound # {}

\* C8: once the context is cancelled a queued launch is never started (its
\* node gets no provisioner read and no cloudProvider.Create), and nothing a
\* pass has made is taken back: machines and node objects stay until the
\* pass returns, bindings stay for good.
C8_CancelSkipsQueuedKeepsCreated ==
    /\ [](\A n \in DOMAIN nodePods :
            nstate[n] = "skipped" =>
               /\ ctxDone /\ ~latest[n].read
               /\ n \notin createCalls /\ n \notin created)
    /\ [][\A n \in NodeIds :
            (ctxDone /\ nstate[n] = "queued") => nstate'[n] \in {"queued", "skipped"}]_vars
    /\ [][/\ bound \subseteq bound'
          /\ driver # "broadcast" =>
               /\ created \subseteq created'
               /\ registered \subseteq registered']_vars

C8_Witness ==
    /\ ctxDone
    /\ driver = "broadcast"
    /\ \E n, m \in DOMAIN nodePods :
         /\ nstate[n] = "skipped"
         /\ m \in created /\ m \in registered
         /\ \E p \in nodePods[m] : p \in bound

(***************************************************************************)
(* Claims about bind.                                                      *)
(***************************************************************************)
\* The pod does not tolerate the taints of the node object of its node.
NotTolerated(n, p) == ~Tolerates(k8sTaints[n], p, notReadyTolerations)

C10_BroadcastOncePerPass ==
    /\ driver \in {"getPods", "schedule", "launch", "broadcast"} => broadcasts = 0
    /\ (driver = "loop" /\ provisionErr # None) => broadcasts = 1
    /\ driver = "broadcast" =>
          /\ provisionErr \in {"nil", "err"}
          /\ \A n \in DOMAIN nodePods : nstate[n] \in LaunchFinished
          /\ \A p \in Pods : piece[p] # "queued"

C10_Witness ==
    /\ driver = "loop"
    /\ broadcasts = 1
    /\ provisionErr = "nil"
    /\ deferred.bind # {}
    /\ bound # {}

(***************************************************************************)
(* Errors before launch.                                                   *)
(***************************************************************************)
\* Nothing of launch happened in this pass.
NoLaunchActivity ==
    /\ nodePods = NoNodes
    /\ createCalls = {}
    /\ created = {}
    /\ registered = {}
    /\ \A n \in NodeIds : nstate[n] = None /\ registerRes[n] = None
    /\ bindCalls = {}
    /\ events = {}

\* C11: when a pass has at least one provisionable pod and the provisioner list
\* it read is empty, schedule returns the "no provisioners" error before
\* volume-topology injection, topology construction, the daemon-set listing
\* and Solve, and the pass issues no Create, no node registration and no Bind.
C11_NoProvisionersIsFatal ==
    ("listProvisioners" \in passSteps /\ passFault # "listProvisioners"
        /\ provisioners = {})
    => /\ batch # {}
       /\ passFault = "noProvisioners"
       /\ provisionErr = "err"
       /\ driver = "broadcast"
       /\ passSteps \cap {"inject", "newTopology", "listDaemonSets", "solve"} = {}
       /\ NoLaunchActivity

C11_Witness ==
    /\ driver = "broadcast"
    /\ passFault = "noProvisioners"
    /\ provisioners = {}
    /\ batch # {}

\* The steps of a pass before launch, in the order the claim lists them.
PreLaunchOrder ==
    <<"listPods", "listProvisioners", "getRequirements", "getInstanceTypes",
      "inject", "newTopology", "listDaemonSets">>

PreLaunchPosition(step) == CHOOSE i \in DOMAIN PreLaunchOrder : PreLaunchOrder[i] = step

PreLaunchCalls == {PreLaunchOrder[i] : i \in DOMAIN PreLaunchOrder}

\* C12: an error of a call before launch (listing pods, listing provisioners,
\* GetRequirements, GetInstanceTypes, volume-topology injection, topology
\* construction, listing daemon sets) aborts the pass at that call: provision
\* returns the error, no later step ran, nothing of launch happened, the
\* broadcast leaves nothing of the pass behind, only a Trigger takes the driver
\* out of Wait again, and the pass that follows begins by listing the pods.
C12_ErrorAbortsPassAtStep ==
    /\ [](passFault \in PreLaunchCalls
            => /\ driver = "broadcast"
               /\ provisionErr = "err"
               /\ \A step \in passSteps \cap PreLaunchCalls :
                    PreLaunchPosition(step) <= PreLaunchPosition(passFault)
               /\ "solve" \notin passSteps
               /\ NoLaunchActivity)
    /\ [][/\ (passFault \in PreLaunchCalls /\ driver' # driver)
             => (driver' = "loop" /\ passSteps' = {} /\ passFault' = None
                   /\ batch' = {} /\ nodePods' = NoNodes)
          /\ (driver = "waitFirst" /\ driver' # driver /\ ~ctxDone)
             => (trigger /\ driver' = "waitWindow")
          /\ (driver = "getPods" /\ driver' # driver)
             => (passSteps = {} /\ "listPods" \in passSteps')]_vars

C12_Witness ==
    /\ driver = "broadcast"
    /\ passFault = "listDaemonSets"
    /\ passSteps = {"listPods", "listProvisioners", "getRequirements",
                    "getInstanceTypes", "noProvisioners", "inject", "newTopology",
                    "listDaemonSets"}
    /\ bound # {}

(***************************************************************************)
(* The batching window.                                                    *)
(***************************************************************************)
\* Batcher.Wait returns to provision with its context still live.
WaitReturns == driver = "waitWindow" /\ driver' = "getPods" /\ ~ctxDone

\* C13 as stated: Wait never returns earlier than W_idle after the last Trigger
\* it took, whatever the sequence of Trigger calls.
C13_NeverBeforeIdleAfterLastTrigger ==
    [][WaitReturns => sinceTrigger >= WIdle]_vars

\* C13: Wait leaves its first half only on a Trigger; once the window is open,
\* Wait returns no earlier than W_idle after the last Trigger it took unless
\* W_max has passed since the window opened, and it never returns later than
\* W_max after the window opened.
C13_BatchingWindow ==
    /\ [](driver = "waitWindow" => sinceOpen <= WMax)
    /\ [][/\ (driver = "waitFirst" /\ driver' # driver /\ ~ctxDone) => trigger
          /\ WaitReturns => /\ sinceTrigger >= WIdle \/ sinceOpen >= WMax
                            /\ sinceOpen <= WMax]_vars

\* A window that a late Trigger extended and the max timer is about to end.
C13_Witness ==
    /\ driver = "waitWindow"
    /\ ~ctxDone
    /\ maxLeft = 0
    /\ sinceOpen = WMax
    /\ sinceTrigger < WIdle

\* C14: Trigger can always be called; a Trigger leaves the driver and the pass
\* in flight as they are; the driver leaves Wait's first half only by taking
\* the one armed slot, however many Trigger calls armed it; the pass that
\* follows lists every pod that is then unassigned, valid and provisionable;
\* and a window that took no further Trigger stays open for W_idle.
C14_TriggerCoalesces ==
    /\ [](ENABLED Trigger)
    /\ [][/\ (~trigger /\ trigger')
             => UNCHANGED <<ctxDone, driver, provisionErr, passVars, schedVars,
                            storeVars, clockVars>>
          /\ (driver = "waitFirst" /\ driver' = "waitWindow")
             => (trigger /\ ~trigger')
          /\ (driver = "getPods" /\ driver' = "schedule")
             => batch' = {p \in Pods \ bound : PodValid(p) /\ PodProvisionable(p)}
          /\ (WaitReturns /\ sinceTrigger = sinceOpen)
             => sinceOpen >= WIdle]_vars

\* Trigger was called while the launch of a pass was in flight.
C14_Witness ==
    /\ driver = "launch"
    /\ trigger
    /\ createCalls # {}
    /\ ~ctxDone

(***************************************************************************)
(* The result of Solve.                                                    *)
(***************************************************************************)
RECURSIVE SumSolveRequests(_, _)
SumSolveRequests(ps, r) ==
    IF ps = {} THEN 0
    ELSE LET p == CHOOSE x \in ps : TRUE
         IN  SolveRequests(p)[r] + SumSolveRequests(ps \ {p}, r)

SolvedNodes == {solveOut.nodes[i] : i \in DOMAIN solveOut.nodes}

\* C15: every node that Solve returns has at least one pod and at least one
\* instance type left, and for each type left and each resource the requests
\* of the node's pods plus the daemon overhead are at most the type's capacity
\* minus its overhead; every pod of the batch is on one node or unscheduled.
C15_ResourceFeasibility ==
    solveOut.solved
    => /\ \A node \in SolvedNodes :
            /\ node.pods # {}
            /\ node.options # {}
            /\ \A name \in node.options, r \in ResourceNames :
                 SumSolveRequests(node.pods, r)
                    + DaemonOverhead(solveIn.daemons)[r]
                 <= TypeOf(name).capacity[r] - TypeOf(name).overhead[r]
       /\ \A p \in 1..Len(solveIn.arrival) :
            Cardinality({i \in DOMAIN solveOut.nodes : p \in solveOut.nodes[i].pods})
               = IF p \in solveOut.unscheduled THEN 0 ELSE 1

\* Three pods on one node with daemons: only the largest type is left.
C15_Witness ==
    /\ solveOut.solved
    /\ solveIn.daemons
    /\ \E node \in SolvedNodes :
         Cardinality(node.pods) = MaxBatch /\ node.options = {"large"}

Skew(counts) == MaxCount(counts) - MinCount(counts)

\* C16 as stated: after Solve the per-zone counts of the constraint (cluster
\* pods plus the pods placed) differ by at most maxSkew.
C16_SkewWithinMaxSkew ==
    (solveOut.solved /\ solveIn.maxSkew > 0)
    => Skew(solveOut.counts) <= solveIn.maxSkew

\* C16: Solve never makes the skew worse than maxSkew: after Solve the skew is
\* at most the larger of maxSkew and the skew of the cluster before the pass,
\* the counts are the cluster's counts plus the pods placed per zone, and every
\* node with pods of the constraint is narrowed to one zone.
C16_TopologyCompliance ==
    (solveOut.solved /\ solveIn.maxSkew > 0)
    => /\ Skew(solveOut.counts)
            <= IF Skew(solveIn.existing) > solveIn.maxSkew
               THEN Skew(solveIn.existing) ELSE solveIn.maxSkew
       /\ \A node \in SolvedNodes : Cardinality(node.zones) = 1
       /\ \A z \in Zones :
            solveOut.counts[z]
               = solveIn.existing[z]
                   + Cardinality(UNION {node.pods : node \in {m \in SolvedNodes : m.zones = {z}}})

\* Three pods, maxSkew 1, an empty cluster: three nodes, each narrowed to a
\* zone of its own.
C16_Witness ==
    /\ solveOut.solved
    /\ solveIn.maxSkew = 1
    /\ \A z \in Zones : solveIn.existing[z] = 0 /\ solveOut.counts[z] = 1
    /\ Len(solveOut.nodes) = Cardinality(Zones)
    /\ \A i, j \in DOMAIN solveOut.nodes :
         i # j => solveOut.nodes[i].zones # solveOut.nodes[j].zones

\* The pods of a batch in the order of their names.
ByName(arrival) == [i \in DOMAIN arrival |-> i]

LaunchOrder ==
    {<<None, "queued">>, <<"queued", "get">>, <<"queued", "skipped">>,
     <<"get", "getErr">>, <<"get", "limit">>, <<"get", "create">>,
     <<"create", "createErr">>, <<"create", "mergeErr">>, <<"create", "register">>,
     <<"register", "registerErr">>, <<"register", "bind">>, <<"bind", "done">>}

LimitsPassed(n) == latest[n].read /\ ~latest[n].exceeded

\* C18: for every node, in every interleaving, launch moves only in the order
\* limits check, cloudProvider.Create, registration, bind: Create is called
\* only after the limits check passed, the node object is registered only
\* after Create returned a node, a bind work piece of a pod of the node exists
\* and a Bind is issued only after the registration ended in created or
\* already-exists, and a node whose step failed has none of the later steps.
C18_LaunchProtocolOrder ==
    /\ [](\A n \in DOMAIN nodePods :
            /\ n \in createCalls => LimitsPassed(n)
            /\ n \in created => n \in createCalls
            /\ registerRes[n] # None => n \in created
            /\ n \in registered => registerRes[n] = "created"
            /\ \A p \in nodePods[n] :
                 (piece[p] # None \/ p \in bindCalls \/ p \in events)
                    => /\ LimitsPassed(n)
                       /\ n \in created
                       /\ registerRes[n] \in {"created", "exists"}
            /\ nstate[n] \in {"getErr", "limit"} => n \notin createCalls
            /\ nstate[n] = "createErr" => n \notin created
            /\ nstate[n] \in {"createErr", "mergeErr"} => registerRes[n] = None
            /\ nstate[n] \in LaunchFailed
                  => \A p \in nodePods[n] : piece[p] = None /\ p \notin bindCalls)
    /\ [][\A n \in NodeIds :
            (nstate'[n] # nstate[n] /\ driver # "broadcast")
               => <<nstate[n], nstate'[n]>> \in LaunchOrder]_vars

\* A Bind was issued for a pod of a node whose object already existed, while
\* the Create of a sibling failed.
C18_Witness ==
    /\ \E p \in bindCalls : registerRes[NodeOf(p)] = "exists"
    /\ \E n \in DOMAIN nodePods : nstate[n] = "createErr"

\* The terminal states of a node: Bound, Failed, Aborted-by-limit.
Terminal(n) ==
    {t \in {"Bound", "Failed", "AbortedByLimit"} :
        \/ t = "Bound" /\ nstate[n] = "done"
        \/ t = "Failed" /\ nstate[n] \in {"getErr", "createErr", "mergeErr", "registerErr"}
        \/ t = "AbortedByLimit" /\ nstate[n] = "limit"}

\* C19: cloudProvider.Create is called for a node only when it was not called
\* for it before in the pass, a node whose launch has returned is never taken
\* up again in the pass, and when the pass completes with the context not
\* cancelled every node is in exactly one of the terminal states Bound, Failed
\* and Aborted-by-limit.
C19_NodeConsumedOnce ==
    /\ []((driver = "broadcast" /\ ~ctxDone)
            => \A n \in DOMAIN nodePods : Cardinality(Terminal(n)) = 1)
    /\ [][\A n \in NodeIds :
            /\ (nstate[n] = "create" /\ nstate'[n] # nstate[n])
               => (n \notin createCalls /\ n \in createCalls')
            /\ (n \in createCalls /\ driver # "broadcast")
               => (n \in createCalls' /\ nstate'[n] \notin {"queued", "get", "create"})
            /\ (nstate[n] \in LaunchFinished /\ driver # "broadcast")
               => nstate'[n] = nstate[n]]_vars

\* A pass completes with one node bound, and one aborted by its limits.
C19_Witness ==
    /\ driver = "broadcast"
    /\ ~ctxDone
    /\ createCalls # {}
    /\ \E n, m \in DOMAIN nodePods :
         Terminal(n) = {"Bound"} /\ Terminal(m) = {"AbortedByLimit"}

(***************************************************************************)
(* The batch of a pass.                                                    *)
(***************************************************************************)
\* C20: when getPods has listed the pods, the batch is exactly the set of the
\* pods that are unassigned, valid (pod validation and persistent-volume-claim
\* validation) and provisionable: an invalid pod is left out, takes no other
\* pod with it and does not abort the pass, which goes on to schedule whenever
\* the batch is not empty; within the pass the batch does not change, and a
\* pod outside the batch is on no node and has no bind work piece, Bind or
\* event.
C20_BatchIsFilteredList ==
    /\ [](/\ \A n \in DOMAIN nodePods : nodePods[n] \subseteq batch
          /\ \A p \in Pods \ batch :
               piece[p] = None /\ p \notin bindCalls /\ p \notin events)
    /\ [][/\ (driver = "getPods" /\ driver' # driver /\ passFault' = None)
             => /\ batch' = {p \in Pods : /\ p \notin bound
                                          /\ PodValid(p)
                                          /\ PodProvisionable(p)}
                /\ driver' = IF batch' = {} THEN "broadcast" ELSE "schedule"
                /\ provisionErr' # "err"
          /\ (driver \in {"schedule", "launch"} /\ driver' # "loop")
             => batch' = batch]_vars

\* A pass whose list held a bound pod, an invalid pod and a pod that is not
\* provisionable goes on with the pods that are left.
C20_Witness ==
    /\ driver = "schedule"
    /\ bound # {}
    /\ batch # {}
    /\ \E p \in Pods \ bound : ~PodValid(p)
    /\ \E p \in Pods \ bound : PodValid(p) /\ ~PodProvisionable(p)

(***************************************************************************)
(* One pass at a time.                                                     *)
(***************************************************************************)
\* A launch worker or a bind worker of the pass is queued or running.
WorkerInFlight ==
    \/ \E n \in DOMAIN nodePods : nstate[n] \notin LaunchFinished
    \/ \E p \in Pods : piece[p] = "queued"

\* C21: the driver goroutine is the only consumer of the batcher and runs one
\* pass at a time: only a driver inside Batcher.Wait takes a Trigger from the
\* slot, workers of a pass exist only while the driver is in the launch of
\* that pass, the driver leaves the launch only when every launch and bind
\* worker has returned, and it enters a new Batcher.Wait only from its loop
\* with nothing of the previous pass left.
C21_PassesNeverOverlap ==
    /\ [](driver # "launch" => ~WorkerInFlight)
    /\ [](driver \in {"loop", "waitFirst", "waitWindow", "getPods"}
            => /\ nodePods = NoNodes
               /\ batch = {}
               /\ \A p \in Pods : piece[p] = None)
    /\ [][/\ (trigger /\ ~trigger') => driver \in {"waitFirst", "waitWindow"}
          /\ (driver # "waitFirst" /\ driver' = "waitFirst") => driver = "loop"
          /\ (driver = "launch" /\ driver' # driver)
             => (driver' = "broadcast" /\ ~WorkerInFlight)]_vars

\* The driver waits for the next Trigger after a launch in which a Create
\* failed, with a pod bound by a launch.
C21_Witness ==
    /\ driver = "waitFirst"
    /\ deferred.create # {}
    /\ bound # {}

\* C23: a failed Bind is only logged: when bind has returned for a node and
\* the context was not cancelled, every pod of the node had its event or its
\* Bind call, whether or not the Bind of a sibling failed; bind returns nil, so
\* a node whose object was registered ends in no failure, and the pass of a
\* failed Bind returns nil.
C23_FailedBindOnlyLogged ==
    /\ [](\A n \in DOMAIN nodePods :
            /\ (nstate[n] = "done" /\ ~ctxDone)
               => \A p \in nodePods[n] :
                    /\ piece[p] \in {"event", "bindOk", "bindErr"}
                    /\ p \in bindCalls <=> piece[p] \in {"bindOk", "bindErr"}
            /\ (\E p \in nodePods[n] : piece[p] = "bindErr")
               => (nstate[n] \in {"bind", "done"} /\ provisionErr # "err"))
    /\ [][\A n \in NodeIds :
            (nstate[n] = "bind" /\ nstate'[n] # nstate[n] /\ driver # "broadcast")
               => nstate'[n] = "done"]_vars

\* bind returned for a node with one failed and one successful Bind.
C23_Witness ==
    /\ ~ctxDone
    /\ \E n \in DOMAIN nodePods :
         /\ nstate[n] = "done"
         /\ \E p, q \in nodePods[n] :
              piece[p] = "bindErr" /\ piece[q] = "bindOk" /\ q \in bound

(***************************************************************************)
(* TriggerAndWait.                                                         *)
(***************************************************************************)
\* C22 as stated: TriggerAndWait returns only on the broadcast of a pass that
\* started after its TriggerImmediate, and the broadcast of that pass never
\* fires while the caller is not yet waiting on the condition variable.
C22_WaitsForOwnPass ==
    /\ caller = "returned" => wokenBy = "own"
    /\ ownPass = "done" => caller \in {"idle", "returned"}


====
